---------------------------- MODULE Spec2Model ----------------------------
(***************************************************************************)
(* A model of src/agent.py (aankitroy/flight_booking_agent).               *)
(*                                                                         *)
(* Three specifications share the module:                                  *)
(*   SpecRace    one invocation of search_knowledge_base on a              *)
(*               single-threaded asyncio event loop: the tool's task, the  *)
(*               status-update task, the loop's ready queue and timers.    *)
(*   SpecSession the AgentSession: agent instances, their hooks, the tools *)
(*               and the hand-off from FlightBookingAgent to               *)
(*               HotelBookingAgent, with the chat history.                 *)
(*   SpecExtract HotelBookingAgent.extract_flight_context as a function of *)
(*               a chat history.                                           *)
(* Text is a sequence of one-character strings, so that lower(), upper(),  *)
(* title(), split() and the substring tests are computed, not assumed.     *)
(***************************************************************************)
EXTENDS Integers, Sequences, FiniteSets, TLC

VARIABLES
    \* ---- the event loop and the two tasks of search_knowledge_base
    now,          \* loop.time(), in whole seconds
    searchDelay,  \* how long _perform_search sleeps
    query,        \* the tool's argument
    tool,         \* the task running search_knowledge_base
    status,       \* status_update_task
    ready,        \* the loop's FIFO of handles (call_soon)
    todo,         \* handles left in the current loop iteration
    scheduled,    \* the loop's timers, in the order they expire
    replyCalls,   \* how many times line 65 called generate_reply
    toolResult,   \* what the tool invocation returned or raised
    \* ---- the session
    agents,       \* the agent instances created so far
    contexts,     \* the ChatContext objects; an agent holds an index
    session,      \* the session's phase
    lastFlight,   \* the last result of book_flight
    lastHotel,    \* the last result of book_hotel
    lastSearch,   \* the last result of search_knowledge_base
    entered,      \* what HotelBookingAgent.on_enter extracted
    \* ---- extract_flight_context alone
    hist,         \* the history given to it
    extracted     \* its result

raceVars == <<now, searchDelay, query, tool, status, ready, todo, scheduled,
              replyCalls, toolResult>>
sessionVars == <<agents, contexts, session, lastFlight, lastHotel, lastSearch,
                 entered>>
extractVars == <<hist, extracted>>
vars == <<raceVars, sessionVars, extractVars>>

---------------------------------------------------------------------------
(* Bounds of the model.                                                    *)
MaxTime == 5
MaxSearchDelay == 3

(* Program constants.                                                      *)
\* asyncio.sleep(2.0) in _perform_search, line 37
SearchSleep == 2

\* Mutant of StatusDelay: a delay shorter than the search's sleep.
StatusDelay_Short == SearchSleep - 1

\* _speak_status_update(2), line 70
StatusDelay == 2
Queries == {"baggage", "refund"}
SearchDelays == 0 .. MaxSearchDelay

NoResult == [kind |-> "none"]
Unset == -1

---------------------------------------------------------------------------
(* Text.                                                                   *)

\* str.lower(), str.upper(), str.title() on the letters of ASCII.
LowerAlpha == <<"a", "b", "c", "d", "e", "f", "g", "h", "i", "j", "k", "l",
    "m", "n", "o", "p", "q", "r", "s", "t", "u", "v", "w", "x", "y", "z">>
UpperAlpha == <<"A", "B", "C", "D", "E", "F", "G", "H", "I", "J", "K", "L",
    "M", "N", "O", "P", "Q", "R", "S", "T", "U", "V", "W", "X", "Y", "Z">>
IsLower(c) == \E i \in 1 .. 26 : LowerAlpha[i] = c
IsUpper(c) == \E i \in 1 .. 26 : UpperAlpha[i] = c
IsAlpha(c) == IsLower(c) \/ IsUpper(c)
LowerChar(c) ==
    IF IsUpper(c) THEN LowerAlpha[CHOOSE i \in 1 .. 26 : UpperAlpha[i] = c] ELSE c
UpperChar(c) ==
    IF IsLower(c) THEN UpperAlpha[CHOOSE i \in 1 .. 26 : LowerAlpha[i] = c] ELSE c
Lower(s) == [i \in 1 .. Len(s) |-> LowerChar(s[i])]
Upper(s) == [i \in 1 .. Len(s) |-> UpperChar(s[i])]
\* title(): a letter that follows a letter is lowered, any other letter raised.
Title(s) ==
    [i \in 1 .. Len(s) |->
        IF i > 1 /\ IsAlpha(s[i - 1]) THEN LowerChar(s[i]) ELSE UpperChar(s[i])]

\* `sub in s`, s.find(sub), s.split(sep) and s.split().
StartsAt(s, sub, i) ==
    /\ i + Len(sub) - 1 <= Len(s)
    /\ \A j \in 1 .. Len(sub) : s[i + j - 1] = sub[j]
Contains(s, sub) == \E i \in 1 .. Len(s) + 1 : StartsAt(s, sub, i)
Find(s, sub) ==
    IF Contains(s, sub)
    THEN CHOOSE i \in 1 .. Len(s) + 1 :
            /\ StartsAt(s, sub, i)
            /\ \A k \in 1 .. i - 1 : ~StartsAt(s, sub, k)
    ELSE 0
RECURSIVE Split(_, _)
Split(s, sep) ==
    LET i == Find(s, sep)
    IN IF i = 0 THEN <<s>>
       ELSE <<SubSeq(s, 1, i - 1)>>
                \o Split(SubSeq(s, i + Len(sep), Len(s)), sep)
IsSpace(c) == c = " "
RECURSIVE SplitWords(_)
SplitWords(s) ==
    IF s = <<>> THEN <<>>
    ELSE IF IsSpace(Head(s)) THEN SplitWords(Tail(s))
    ELSE LET stop == IF \E i \in 1 .. Len(s) : IsSpace(s[i])
                     THEN CHOOSE i \in 1 .. Len(s) :
                            IsSpace(s[i]) /\ \A k \in 1 .. i - 1 : ~IsSpace(s[k])
                     ELSE Len(s) + 1
         IN <<SubSeq(s, 1, stop - 1)>> \o SplitWords(SubSeq(s, stop, Len(s)))

\* The text returned by _perform_search: the query inside a fixed frame.
PolicyInfo == "Flight Policy Info"
PerformSearchValue(q) ==
    [kind |-> "value", text |-> <<"Searching the knowledge base for", q, PolicyInfo>>]

CancelledError == [kind |-> "raise", error |-> "CancelledError"]

---------------------------------------------------------------------------
(* asyncio: tasks, futures, timers.                                        *)

Task(pc) == [pc |-> pc, fut |-> "none", must_cancel |-> FALSE, when |-> Unset]

Step(t) == [kind |-> "step", task |-> t]
Timer(t) == [kind |-> "timer", task |-> t]

\* loop.call_at: the timers expire in the order of their deadline; of two
\* timers with one deadline the one registered first expires first (two reads
\* of the monotonic clock a loop iteration apart never decrease).
RECURSIVE InsertTimer(_, _)
InsertTimer(q, e) ==
    IF q = <<>> THEN <<e>>
    ELSE IF Head(q).when <= e.when THEN <<Head(q)>> \o InsertTimer(Tail(q), e)
    ELSE <<e>> \o q

\* TimerHandle.cancel() of the task's sleep timer (sleep's finally clause).
DropTimer(q, t) == SelectSeq(q, LAMBDA e : e.task # t)

Finished(task) == task.pc \in {"returned", "raised", "done", "failed", "cancelled"}

\* Task.cancel(): a finished task is left alone; a task waiting on a pending
\* future has that future cancelled (which schedules the task's wake-up);
\* otherwise the request is kept in _must_cancel for the task's next step.
CancelRequested(task) == task.must_cancel \/ task.fut = "cancelled"
Cancel(task) ==
    IF Finished(task) THEN task
    ELSE IF task.fut = "pending" THEN [task EXCEPT !.fut = "cancelled"]
    ELSE [task EXCEPT !.must_cancel = TRUE]
\* The handles Task.cancel() adds to the ready queue.
CancelWakes(task, name) ==
    IF ~Finished(task) /\ task.fut = "pending" THEN <<Step(name)>> ELSE <<>>

\* asyncio.sleep(delay) up to its first suspension: a timer and a future for a
\* positive delay, a bare yield (the task is rescheduled at once) otherwise.
SleepTask(task, pc, delay) ==
    [task EXCEPT !.pc = pc,
                 !.fut = IF delay > 0 THEN "pending" ELSE "none",
                 !.when = now + delay]
SleepTimers(name, delay) ==
    IF delay > 0 THEN InsertTimer(scheduled, [when |-> now + delay, task |-> name])
    ELSE scheduled
SleepWakes(name, delay) == IF delay > 0 THEN <<>> ELSE <<Step(name)>>

\* One handle of the current loop iteration runs (BaseEventLoop._run_once):
\* the head of the ready queue, which must be h.
Handle(h) ==
    /\ todo > 0
    /\ ready # <<>>
    /\ Head(ready) = h
    /\ todo' = todo - 1
    /\ UNCHANGED <<now, searchDelay, query, sessionVars, extractVars>>

---------------------------------------------------------------------------
(* search_knowledge_base and its status-update task.                       *)

\* Lines 63-73 up to the first suspension: the status-update task is created
\* (its first step is queued, it does not run yet), then _perform_search
\* starts its sleep.
ToolStart ==
    /\ Handle(Step("tool"))
    /\ tool.pc = "created"
    /\ status' = Task("created")
    /\ tool' = SleepTask(tool, "searching", searchDelay)
    /\ scheduled' = SleepTimers("tool", searchDelay)
    /\ ready' = Tail(ready) \o <<Step("status")>> \o SleepWakes("tool", searchDelay)
    /\ UNCHANGED <<replyCalls, toolResult>>

\* Line 73 raising: the tool's task was cancelled while it awaited
\* _perform_search. CancelledError leaves search_knowledge_base at line 73;
\* line 76 is not reached.
ToolRaise ==
    /\ Handle(Step("tool"))
    /\ tool.pc = "searching"
    /\ CancelRequested(tool)
    /\ tool' = [tool EXCEPT !.pc = "raised", !.fut = "none", !.must_cancel = FALSE]
    /\ toolResult' = CancelledError
    /\ scheduled' = DropTimer(scheduled, "tool")
    /\ ready' = Tail(ready)
    /\ UNCHANGED <<status, replyCalls>>

\* Mutants of ToolOutcome: the result is lost once the status update has
\* fired (as if the first of the two tasks to finish decided the result), or
\* the status update's failure is raised (as if the task were awaited).
ToolOutcome_StatusWins(r, st) ==
    IF st.pc \in {"in_reply", "done", "failed"}
    THEN [kind |-> "value", text |-> <<>>] ELSE r
ToolOutcome_StatusFailure(r, st) ==
    IF st.pc = "failed" THEN [kind |-> "raise", error |-> "ReplyError"] ELSE r

\* What the tool invocation hands back when _perform_search has returned r.
ToolOutcome(r, st) == r

\* Mutant of CancelStatusUpdate: line 76 left out.
CancelStatusUpdate_Missing(st) == st

\* Line 76.
CancelStatusUpdate(st) == Cancel(st)

\* Lines 73-78 after the search: the result is kept, the status-update task is
\* asked to cancel, the result is returned.
ToolResume ==
    /\ Handle(Step("tool"))
    /\ tool.pc = "searching"
    /\ ~CancelRequested(tool)
    /\ tool.fut \in {"done", "none"}
    /\ tool' = [tool EXCEPT !.pc = "returned", !.fut = "none"]
    /\ toolResult' = ToolOutcome(PerformSearchValue(query), status)
    /\ status' = CancelStatusUpdate(status)
    /\ ready' = Tail(ready) \o
                  (IF status' # status THEN CancelWakes(status, "status") ELSE <<>>)
    /\ UNCHANGED <<scheduled, replyCalls>>

\* The first step of _speak_status_update: line 64 starts the sleep. A task
\* cancelled before its first step never runs its body.
StatusStart ==
    /\ Handle(Step("status"))
    /\ status.pc = "created"
    /\ IF status.must_cancel
       THEN /\ status' = [status EXCEPT !.pc = "cancelled", !.must_cancel = FALSE]
            /\ ready' = Tail(ready)
            /\ UNCHANGED scheduled
       ELSE /\ status' = SleepTask(status, "sleeping", StatusDelay)
            /\ scheduled' = SleepTimers("status", StatusDelay)
            /\ ready' = Tail(ready) \o SleepWakes("status", StatusDelay)
    /\ UNCHANGED <<tool, replyCalls, toolResult>>

\* Mutant of Interrupted: the body catches CancelledError and carries on to
\* its end.
Interrupted_Swallowed(st) ==
    [st EXCEPT !.pc = IF st.pc = "in_reply" THEN "done" ELSE "cancelled",
               !.fut = "none", !.must_cancel = FALSE]

\* What a cancellation delivered at an await of _speak_status_update does to
\* the task: the coroutine has no handler, the task ends cancelled.
Interrupted(st) == [st EXCEPT !.pc = "cancelled", !.fut = "none", !.must_cancel = FALSE]

\* Line 64 resuming. A cancellation is delivered here; otherwise line 65
\* calls generate_reply, which suspends the task until the backend has
\* answered, or fails at once.
StatusWake ==
    /\ Handle(Step("status"))
    /\ status.pc = "sleeping"
    /\ ready' = Tail(ready)
    /\ IF CancelRequested(status)
       THEN /\ status' = Interrupted(status)
            /\ scheduled' = DropTimer(scheduled, "status")
            /\ UNCHANGED replyCalls
       ELSE /\ status.fut \in {"done", "none"}
            /\ replyCalls' = replyCalls + 1
            /\ \/ status' = [status EXCEPT !.pc = "in_reply", !.fut = "pending"]
               \/ status' = [status EXCEPT !.pc = "failed", !.fut = "none"]
            /\ UNCHANGED scheduled
    /\ UNCHANGED <<tool, toolResult>>

\* Line 65 resuming: generate_reply has answered, has failed, or the task was
\* cancelled while it waited.
StatusFinish ==
    /\ Handle(Step("status"))
    /\ status.pc = "in_reply"
    /\ ready' = Tail(ready)
    /\ status' = IF CancelRequested(status) THEN Interrupted(status)
                 ELSE IF status.fut = "error"
                      THEN [status EXCEPT !.pc = "failed", !.fut = "none"]
                      ELSE [status EXCEPT !.pc = "done", !.fut = "none"]
    /\ UNCHANGED <<tool, scheduled, replyCalls, toolResult>>

\* A timer handle: futures._set_result_unless_cancelled on the sleep's future.
TimerFire ==
    \E t \in {"tool", "status"} :
        LET task == IF t = "tool" THEN tool ELSE status
            live == task.pc \in {"searching", "sleeping"} /\ task.fut = "pending"
            woken == [task EXCEPT !.fut = "done"]
        IN /\ Handle(Timer(t))
           /\ ready' = Tail(ready) \o (IF live THEN <<Step(t)>> ELSE <<>>)
           /\ tool' = IF live /\ t = "tool" THEN woken ELSE tool
           /\ status' = IF live /\ t = "status" THEN woken ELSE status
           /\ UNCHANGED <<scheduled, replyCalls, toolResult>>

---------------------------------------------------------------------------
(* The event loop (BaseEventLoop._run_once).                               *)

Expired(e) == e.when <= now

\* The start of an iteration: the expired timers join the ready queue in the
\* order of their deadlines; the handles now in the queue are this
\* iteration's.
LoopPoll ==
    /\ todo = 0
    /\ LET due == SelectSeq(scheduled, Expired)
           timers == [i \in 1 .. Len(due) |-> Timer(due[i].task)]
       IN /\ Len(ready) + Len(due) > 0
          /\ ready' = ready \o timers
          /\ scheduled' = SelectSeq(scheduled, LAMBDA e : ~Expired(e))
          /\ todo' = Len(ready) + Len(due)
    /\ UNCHANGED <<now, searchDelay, query, tool, status, replyCalls, toolResult,
                   sessionVars, extractVars>>

\* Time passes.
Tick ==
    /\ now < MaxTime
    /\ now' = now + 1
    /\ UNCHANGED <<searchDelay, query, tool, status, ready, todo, scheduled,
                   replyCalls, toolResult, sessionVars, extractVars>>

\* The session cancels the tool's task while it awaits _perform_search (the
\* only failure line 73 can raise: _perform_search itself only sleeps).
ExternalCancel ==
    /\ tool.pc = "searching"
    /\ ~CancelRequested(tool)
    /\ tool' = Cancel(tool)
    /\ ready' = ready \o CancelWakes(tool, "tool")
    /\ UNCHANGED <<now, searchDelay, query, status, todo, scheduled, replyCalls,
                   toolResult, sessionVars, extractVars>>

\* The backend finishes the reply the status update asked for, or fails.
ReplyDone ==
    /\ status.pc = "in_reply"
    /\ status.fut = "pending"
    /\ \E r \in {"done", "error"} : status' = [status EXCEPT !.fut = r]
    /\ ready' = ready \o <<Step("status")>>
    /\ UNCHANGED <<now, searchDelay, query, tool, todo, scheduled, replyCalls,
                   toolResult, sessionVars, extractVars>>

---------------------------------------------------------------------------
(* HotelBookingAgent.extract_flight_context.                               *)

\* An item of ChatContext.items: a role and a content; an item with no role
\* attribute (a tool call's record) has role "none".
Msg(role, content) == [role |-> role, content |-> content]

\* The list of date words of lines 230-231, in its order.
DateWords == <<
    <<"t", "o", "m", "o", "r", "r", "o", "w">>, <<"t", "o", "d", "a", "y">>,
        <<"n", "e", "x", "t", " ", "w", "e", "e", "k">>, <<"j", "a", "n",
        "u", "a", "r", "y">>, <<"f", "e", "b", "r", "u", "a", "r", "y">>,
    <<"m", "a", "r", "c", "h">>, <<"a", "p", "r", "i", "l">>, <<"m", "a",
        "y">>, <<"j", "u", "n", "e">>, <<"j", "u", "l", "y">>, <<"a", "u",
        "g", "u", "s", "t">>,
    <<"s", "e", "p", "t", "e", "m", "b", "e", "r">>, <<"o", "c", "t", "o",
        "b", "e", "r">>, <<"n", "o", "v", "e", "m", "b", "e", "r">>, <<"d",
        "e", "c", "e", "m", "b", "e", "r">> >>

W_flight == <<"f", "l", "i", "g", "h", "t">>
W_book == <<"b", "o", "o", "k">>
W_booked == <<"b", "o", "o", "k", "e", "d">>
W_to == <<"t", "o", " ">>
NotSpecified == <<"N", "o", "t", " ", "s", "p", "e", "c", "i", "f", "i", "e",
    "d">>

IndexError == [kind |-> "raise", error |-> "IndexError"]

\* flight_details[key] = value
Put(d, key, value) ==
    [k \in DOMAIN d \cup {key} |-> IF k = key THEN value ELSE d[k]]
\* flight_details.get(key, default)
Get(d, key, default) == IF key \in DOMAIN d THEN d[key] ELSE default

EmptyDict == [k \in {} |-> TRUE]

\* Lines 223-227: the first word after the first "to ", title-cased.
\* parts[1].split()[0] raises IndexError when nothing but spaces follows.
Destination(content, d) ==
    IF ~Contains(content, W_to) THEN d
    ELSE LET parts == Split(content, W_to)
         IN IF Len(parts) > 1
            THEN LET words == SplitWords(parts[2])
                 IN IF words = <<>> THEN IndexError
                    ELSE Put(d, "destination", Title(words[1]))
            ELSE d

\* Lines 230-234: the first date word of the list that the content holds.
Date(content, d) ==
    IF \E i \in 1 .. Len(DateWords) : Contains(content, DateWords[i])
    THEN LET i == CHOOSE i \in 1 .. Len(DateWords) :
                    /\ Contains(content, DateWords[i])
                    /\ \A k \in 1 .. i - 1 : ~Contains(content, DateWords[k])
         IN Put(d, "date", Title(DateWords[i]))
    ELSE d

\* Lines 214-238: one item of the history.
ScanItem(item, d) ==
    IF item.role = "none" THEN d
    ELSE LET content == Lower(item.content)
             u == IF /\ item.role = "user"
                     /\ item.content # <<>>
                     /\ \/ Contains(content, W_flight)
                        \/ Contains(content, W_book)
                  THEN LET dd == Destination(content, d)
                       IN IF dd = IndexError THEN IndexError ELSE Date(content, dd)
                  ELSE d
         IN IF u = IndexError THEN IndexError
            ELSE IF /\ item.role = "assistant"
                    /\ Contains(content, W_flight)
                    /\ Contains(content, W_booked)
                 THEN Put(u, "confirmed", TRUE)
                 ELSE u

\* Lines 213-238: the items in their order.
RECURSIVE ScanItems(_, _)
ScanItems(items, d) ==
    IF items = <<>> THEN d
    ELSE LET n == ScanItem(Head(items), d)
         IN IF n = IndexError THEN IndexError ELSE ScanItems(Tail(items), n)

EmptyContext == [kind |-> "value", text |-> <<>>]

\* Lines 244-255: the context text, as its three fields.
ContextInfo(d) ==
    IF DOMAIN d = {} THEN EmptyContext
    ELSE [kind |-> "value",
          text |-> <<"IMPORTANT CONTEXT FROM FLIGHT BOOKING">>,
          destination |-> Get(d, "destination", NotSpecified),
          date |-> Get(d, "date", NotSpecified),
          status |-> IF Get(d, "confirmed", FALSE)
                     THEN "Confirmed" ELSE "In progress"]

\* Lines 202-255.
ExtractFlightContext(items) ==
    LET d == ScanItems(items, EmptyDict)
    IN IF d = IndexError THEN IndexError ELSE ContextInfo(d)

\* The messages of the model's histories.
U_ParisTomorrow == Msg("user", <<"B", "o", "o", "k", " ", "a", " ", "f", "l",
    "i", "g", "h", "t", " ", "t", "o", " ", "P", "a", "r", "i", "s", " ",
    "t", "o", "m", "o", "r", "r", "o", "w">>)
U_NycLax == Msg("user", <<"b", "o", "o", "k", " ", "a", " ", "f", "l", "i",
    "g", "h", "t", " ", "f", "r", "o", "m", " ", "N", "Y", "C", " ", "t",
    "o", " ", "L", "A", "X">>)
U_WantLax == Msg("user", <<"I", " ", "w", "a", "n", "t", " ", "t", "o", " ",
    "b", "o", "o", "k", " ", "a", " ", "f", "l", "i", "g", "h", "t", " ",
    "t", "o", " ", "L", "A", "X", " ", "n", "e", "x", "t", " ", "w", "e",
    "e", "k">>)
U_Hello == Msg("user", <<"h", "e", "l", "l", "o">>)
U_Stutter == Msg("user", <<"I", " ", "w", "a", "n", "t", " ", "t", "o", " ",
    "t", "o", " ", "b", "o", "o", "k", " ", "a", " ", "f", "l", "i", "g",
    "h", "t">>)
U_December == Msg("user", <<"a", " ", "f", "l", "i", "g", "h", "t", " ", "i",
    "n", " ", "D", "e", "c", "e", "m", "b", "e", "r", " ", "p", "l", "e",
    "a", "s", "e">>)
A_Name == Msg("assistant", <<"T", "h", "e", " ", "u", "s", "e", "r", "'",
    "s", " ", "n", "a", "m", "e", " ", "i", "s", " ", "A", "a", "n", "k",
    "i", "t", " ", "R", "o", "y", ".">>)
A_Booked == Msg("assistant", <<"Y", "o", "u", "r", " ", "f", "l", "i", "g",
    "h", "t", " ", "h", "a", "s", " ", "b", "e", "e", "n", " ", "s", "u",
    "c", "c", "e", "s", "s", "f", "u", "l", "l", "y", " ", "b", "o", "o",
    "k", "e", "d", "!">>)
F_Output == Msg("none", <<"F", "l", "i", "g", "h", "t", " ", "F", "L", "1",
    "0", "0", "0", " ", "f", "r", "o", "m", " ", "N", "Y", "C", " ", "t",
    "o", " ", "L", "A", "X", " ", "h", "a", "s", " ", "b", "e", "e", "n",
    " ", "s", "u", "c", "c", "e", "s", "s", "f", "u", "l", "l", "y", " ",
    "b", "o", "o", "k", "e", "d", "!">>)

Items == {U_ParisTomorrow, U_NycLax, U_WantLax, U_Hello, U_Stutter,
          U_December, A_Name, A_Booked, F_Output}

MaxLen == 3

RECURSIVE SeqsUpTo(_, _)
SeqsUpTo(S, n) ==
    IF n = 0 THEN {<<>>}
    ELSE LET shorter == SeqsUpTo(S, n - 1)
             longest == {g \in shorter : Len(g) = n - 1}
         IN shorter \cup {Append(h, x) : h \in longest, x \in S}

\* on_enter's call of line 331, on a history of its own.
Extract ==
    /\ extracted = NoResult
    /\ extracted' = ExtractFlightContext(hist)
    /\ UNCHANGED <<raceVars, sessionVars, hist>>

RaceIdle ==
    /\ now = 0
    /\ tool = Task("created")
    /\ status = Task("unborn")
    /\ ready = <<Step("tool")>>
    /\ todo = 0
    /\ scheduled = <<>>
    /\ replyCalls = 0
    /\ toolResult = NoResult

SessionIdle ==
    /\ agents = <<>>
    /\ contexts = <<>>
    /\ session = [phase |-> "none", current |-> 0, target |-> 0]
    /\ lastFlight = NoResult
    /\ lastHotel = NoResult
    /\ lastSearch = NoResult
    /\ entered = NoResult

ExtractIdle ==
    /\ hist = <<>>
    /\ extracted = NoResult

InitRace ==
    /\ searchDelay \in SearchDelays
    /\ query \in Queries
    /\ RaceIdle
    /\ SessionIdle
    /\ ExtractIdle

NextRace ==
    \/ LoopPoll
    \/ TimerFire
    \/ ToolStart
    \/ ToolRaise
    \/ ToolResume
    \/ StatusStart
    \/ StatusWake
    \/ StatusFinish
    \/ Tick
    \/ ExternalCancel
    \/ ReplyDone


SpecRace == InitRace /\ [][NextRace]_vars

InitExtract ==
    /\ hist \in SeqsUpTo(Items, MaxLen)
    /\ extracted = NoResult
    /\ searchDelay = SearchSleep
    /\ query = "baggage"
    /\ RaceIdle
    /\ SessionIdle

NextExtract == Extract

SpecExtract == InitExtract /\ [][NextExtract]_vars

---------------------------------------------------------------------------
(* The session: agents, tools, hand-off.                                   *)

MaxHistory == 2

\* What the user and the assistant may say during a session.
SessionItems == {U_NycLax, U_ParisTomorrow, U_Stutter, A_Booked}

T_NYC == <<"N", "Y", "C">>
T_LAX == <<"L", "A", "X">>
T_Paris == <<"P", "a", "r", "i", "s">>
T_Date == <<"2", "0", "2", "5", "-", "1", "2", "-", "1", "8">>
T_Tomorrow == <<"t", "o", "m", "o", "r", "r", "o", "w">>
T_Standard == <<"s", "t", "a", "n", "d", "a", "r", "d">>
T_Suite == <<"s", "u", "i", "t", "e">>
Sources == {T_NYC}
Destinations == {T_LAX, T_Paris}
TravelDates == {T_Date}
FlightNumbers == {1000, 9999}
Cities == {T_Paris}
RoomTypes == {T_Standard, T_Suite}
Surcharges == {50, 200}
Nights == {7}

NotGiven == 0
History(i) == contexts[agents[i].chat_ctx]

\* Agent.__init__ as both subclasses call it (lines 20-30 and 190-200):
\* chat_ctx if chat_ctx else NOT_GIVEN. A ChatContext object is true; with
\* NOT_GIVEN the agent gets an empty context of its own. The record also
\* keeps the agent whose tool made this one (parent) and the history that
\* agent saw at that moment (seen).
NewAgent(kind, chat_ctx, parent) ==
    [kind |-> kind,
     chat_ctx |-> IF chat_ctx # NotGiven THEN chat_ctx ELSE Len(contexts) + 1,
     state |-> "created", enters |-> 0, exits |-> 0, parent |-> parent,
     seen |-> History(parent)]
ContextsWith(chat_ctx) ==
    IF chat_ctx # NotGiven THEN contexts ELSE Append(contexts, <<>>)

\* Lines 163-173: the dictionary book_flight returns. The flight number is
\* drawn at random; the times, the price and the seat, random too, are left
\* out.
BookFlightResult(source, destination, date, n) ==
    [status |-> "confirmed",
     flight_number |-> <<"FL", n>>,
     route |-> Upper(source) \o <<" ", "→", " ">> \o Upper(destination),
     date |-> date,
     message |-> <<"Flight", <<"FL", n>>, "from", source, "to", destination,
                   "on", date, "has been successfully booked!">>]

\* Lines 277-322: the dictionary book_hotel returns; the surcharge and the
\* number of nights are drawn at random, the room and confirmation numbers,
\* random too, are left out.
BookHotelResult(city, check_in, check_out, guests, room_type, extra, nights) ==
    LET base_price == IF Lower(room_type) = T_Standard THEN 150 ELSE 250
        price_per_night == base_price + extra
    IN [status |-> "confirmed",
        hotel_name |-> <<"Grand", Title(city), "Hotel">>,
        location |-> Upper(city),
        check_in_date |-> check_in,
        check_out_date |-> check_out,
        guests |-> guests,
        room_type |-> Title(room_type),
        nights |-> nights,
        price_per_night |-> price_per_night,
        total_price |-> price_per_night * nights]

Running(kind) ==
    /\ session.phase = "running"
    /\ agents[session.current].state = "active"
    /\ agents[session.current].kind = kind

\* Lines 357-362: the initial context with its one message, and the first
\* agent, not yet started.
InitialContext == <<A_Name>>

\* An agent's on_enter: FlightBookingAgent's (lines 180-183) asks for a
\* greeting; HotelBookingAgent's (lines 324-340) first extracts the flight
\* context, and fails if that raises.
OnEnterContext(i) ==
    IF agents[i].kind = "hotel" THEN ExtractFlightContext(History(i)) ELSE entered
OnEnterOk(i, replyOk) == replyOk /\ OnEnterContext(i) # IndexError

\* session.start (line 360): the first agent becomes active and its on_enter
\* runs.
SessionStart ==
    /\ session.phase = "starting"
    /\ \E replyOk \in BOOLEAN :
        /\ agents' = [agents EXCEPT
                        ![1].enters = @ + 1,
                        ![1].state = IF OnEnterOk(1, replyOk)
                                     THEN "active" ELSE "failed"]
        /\ session' = [session EXCEPT
                        !.phase = IF OnEnterOk(1, replyOk)
                                  THEN "running" ELSE "dead"]
    /\ UNCHANGED <<contexts, lastFlight, lastHotel, lastSearch, entered,
                   raceVars, extractVars>>

\* The backend appends what the user or the assistant said to the history of
\* the agent that is current.
Speak ==
    /\ session.phase \in {"running", "handoff_exit", "handoff_enter"}
    /\ Len(History(session.current)) < Len(InitialContext) + MaxHistory
    /\ \E m \in SessionItems :
        contexts' = [contexts EXCEPT ![agents[session.current].chat_ctx] = Append(@, m)]
    /\ UNCHANGED <<agents, session, lastFlight, lastHotel, lastSearch,
                   entered, raceVars, extractVars>>

\* Lines 80-173.
BookFlight ==
    /\ Running("flight")
    /\ \E s \in Sources, d \in Destinations, dt \in TravelDates,
           n \in FlightNumbers :
        lastFlight' = [kind |-> "value", args |-> <<s, d, dt>>,
                       result |-> BookFlightResult(s, d, dt, n)]
    /\ UNCHANGED <<agents, contexts, session, lastHotel, lastSearch, entered,
                   raceVars, extractVars>>

\* Lines 50-78, as the session sees the invocation: its outcome. (SpecRace
\* holds what happens inside.)
SearchKnowledgeBase ==
    /\ Running("flight")
    /\ \E q \in Queries :
        lastSearch' \in {PerformSearchValue(q), CancelledError}
    /\ UNCHANGED <<agents, contexts, session, lastFlight, lastHotel, entered,
                   raceVars, extractVars>>

\* Lines 257-322.
BookHotel ==
    /\ Running("hotel")
    /\ \E c \in Cities, rt \in RoomTypes, sc \in Surcharges, nt \in Nights :
        lastHotel' = [kind |-> "value",
                      result |-> BookHotelResult(c, T_Date, T_Tomorrow, 2,
                                                 rt, sc, nt)]
    /\ UNCHANGED <<agents, contexts, session, lastFlight, lastSearch, entered,
                   raceVars, extractVars>>

\* Mutant of TransferTarget: the tool returns the agent itself.
TransferTarget_Self(self) == self

\* Line 178: the agent the tool returns is a new instance.
TransferTarget(self) == Len(agents) + 1

\* Mutant of HandedContext: HotelBookingAgent() with no chat_ctx.
HandedContext_NotGiven(self) == NotGiven

\* Line 178: chat_ctx=self.chat_ctx.
HandedContext(self) == agents[self].chat_ctx

\* Lines 175-178: transfer_to_hotel_booking returns a HotelBookingAgent made
\* with the caller's chat context; the session takes it as a hand-off.
TransferToHotelBooking ==
    /\ Running("flight")
    /\ LET self == session.current
           target == TransferTarget(self)
           ctx == HandedContext(self)
       IN /\ agents' = IF target > Len(agents)
                       THEN Append(agents, NewAgent("hotel", ctx, self))
                       ELSE agents
          /\ contexts' = IF target > Len(agents) THEN ContextsWith(ctx) ELSE contexts
          /\ session' = [session EXCEPT !.phase = "handoff_exit",
                                        !.target = target]
    /\ UNCHANGED <<lastFlight, lastHotel, lastSearch, entered, raceVars,
                   extractVars>>

\* The hand-off, step 1: on_exit of the outgoing agent is called and awaited
\* (FlightBookingAgent's, lines 185-186, does nothing; HotelBookingAgent's,
\* lines 342-345, asks for a goodbye); its failure does not stop the hand-off.
HandoffExit ==
    /\ session.phase = "handoff_exit"
    /\ agents' = [agents EXCEPT ![session.current].exits = @ + 1]
    /\ session' = [session EXCEPT !.phase = "handoff_enter"]
    /\ UNCHANGED <<contexts, lastFlight, lastHotel, lastSearch, entered,
                   raceVars, extractVars>>

\* The hand-off, steps 2-4: on_enter of the incoming agent is called; the
\* outgoing agent is marked inactive and the incoming one active. A failing
\* on_enter leaves the session with no active agent.
HandoffEnter ==
    /\ session.phase = "handoff_enter"
    /\ \E replyOk \in BOOLEAN :
        LET a == session.current
            b == session.target
            ok == OnEnterOk(b, replyOk)
            left == [agents EXCEPT ![a].state = "exited"]
        IN /\ agents' = [left EXCEPT ![b].enters = @ + 1,
                                     ![b].state = IF ok THEN "active" ELSE "failed"]
           /\ entered' = OnEnterContext(b)
           /\ session' = [phase |-> IF ok THEN "running" ELSE "dead",
                          current |-> b, target |-> 0]
    /\ UNCHANGED <<contexts, lastFlight, lastHotel, lastSearch, raceVars,
                   extractVars>>

InitSession ==
    /\ contexts = <<InitialContext>>
    /\ agents = <<[kind |-> "flight", chat_ctx |-> 1, state |-> "created",
                   enters |-> 0, exits |-> 0, parent |-> 0,
                   seen |-> <<>>]>>
    /\ session = [phase |-> "starting", current |-> 1, target |-> 0]
    /\ lastFlight = NoResult
    /\ lastHotel = NoResult
    /\ lastSearch = NoResult
    /\ entered = NoResult
    /\ searchDelay = SearchSleep
    /\ query = "baggage"
    /\ RaceIdle
    /\ ExtractIdle

NextSession ==
    \/ SessionStart
    \/ Speak
    \/ BookFlight
    \/ SearchKnowledgeBase
    \/ BookHotel
    \/ TransferToHotelBooking
    \/ HandoffExit
    \/ HandoffEnter

SpecSession == InitSession /\ [][NextSession]_vars

---------------------------------------------------------------------------
(* The claims about the slow-operation race.                               *)

ToolEnded == tool.pc \in {"returned", "raised"}
ToolCancelled == CancelRequested(tool) \/ tool.pc = "raised"
DeadlinesSet == tool.when # Unset /\ status.when # Unset
\* The search's sleep ends strictly before the status update's delay does.
SearchFirst == DeadlinesSet /\ tool.when < status.when
\* The status update's delay ends strictly before the search's sleep does.
StatusFirst == DeadlinesSet /\ status.when < tool.when

\* C1: when the search completes strictly before the status-update delay
\* elapses, generate_reply is never called for the status update, neither
\* before nor after the tool returns.
C1_FastSearchNeverNotifies ==
    (SearchFirst /\ ~ToolCancelled) => replyCalls = 0

\* The tool has returned, the status-update task was cancelled asleep, and the
\* clock is past the moment its delay would have ended.
C1_Witness ==
    /\ SearchFirst
    /\ tool.pc = "returned"
    /\ status.pc = "cancelled"
    /\ now > status.when

\* C2: when the search takes strictly longer than the status-update delay,
\* generate_reply is called exactly once, the tool does not return before the
\* search's sleep has ended, and it returns the search's result.
C2_SlowSearchNotifiesOnce ==
    /\ replyCalls <= 1
    /\ (StatusFirst /\ tool.pc = "returned") =>
           /\ replyCalls = 1
           /\ now >= tool.when
           /\ toolResult = PerformSearchValue(query)

\* The status update fired and finished while the search was still running,
\* and the tool has returned since.
C2_Witness ==
    /\ StatusFirst
    /\ tool.pc = "returned"
    /\ status.pc = "done"
    /\ replyCalls = 1

\* C3: the tool invocation returns exactly what _perform_search returns and
\* raises exactly what it raises, whether the status update did not fire,
\* fired and succeeded, or fired and failed.
C3_OutcomeIsTheSearchs ==
    /\ tool.pc = "returned" => toolResult = PerformSearchValue(query)
    /\ tool.pc = "raised" => toolResult = CancelledError
    /\ ~ToolEnded => toolResult = NoResult

\* The status update fired and failed, and the tool has returned.
C3_Witness ==
    /\ tool.pc = "returned"
    /\ status.pc = "failed"
    /\ replyCalls = 1

\* C4: once the tool invocation has returned or raised, the status-update
\* task is no longer pending and generate_reply is not called for it any
\* more. (A task whose cancellation has been requested is counted as settled
\* here, which favours the claim.)
StatusSettled == Finished(status) \/ CancelRequested(status)
C4_LifetimeBounded ==
    [][ToolEnded' => (StatusSettled' /\ replyCalls' = replyCalls)]_vars

C10_AsWrittenNeverNotifies ==
    (searchDelay = SearchSleep /\ ~ToolCancelled) =>
        /\ replyCalls = 0
        /\ DeadlinesSet => tool.when <= status.when
        /\ status.pc \in {"unborn", "created", "sleeping", "cancelled"}

\* Both timers had the same deadline and both had expired; the tool resumed
\* first and its request reached the status-update task before that task
\* resumed from its sleep.
C10_Witness ==
    /\ searchDelay = SearchSleep
    /\ tool.pc = "returned"
    /\ tool.when = status.when
    /\ status.pc = "sleeping"
    /\ status.fut = "done"
    /\ status.must_cancel

---------------------------------------------------------------------------
(* The claims about the session.                                           *)

Instances == DOMAIN agents
IsPrefix(p, h) == Len(p) <= Len(h) /\ SubSeq(h, 1, Len(p)) = p

\* C6: at most one agent is active; on_enter of an instance is called at
\* most once, exactly once for an instance that is or was active, and never
\* after its on_exit; an instance that left the active state stays out of it.
C6_OneActiveOneShot ==
    /\ [](/\ Cardinality({i \in Instances : agents[i].state = "active"}) <= 1
          /\ \A i \in Instances :
                /\ agents[i].enters <= 1
                /\ agents[i].exits <= 1
                /\ agents[i].state = "created" <=> agents[i].enters = 0
                /\ agents[i].exits = 1 => agents[i].enters = 1)
    /\ [][\A i \in Instances :
             /\ agents'[i].enters > agents[i].enters => agents[i].exits = 0
             /\ agents[i].state \in {"exited", "failed"}
                    => agents'[i].state = agents[i].state]_vars

\* The hand-off is over: the flight agent has been left, the hotel agent is
\* active and has taken a booking.
C6_Witness ==
    /\ Len(agents) = 2
    /\ agents[1].state = "exited" /\ agents[1].enters = 1 /\ agents[1].exits = 1
    /\ agents[2].state = "active" /\ agents[2].enters = 1
    /\ lastHotel # NoResult
    /\ lastSearch # NoResult

\* C7: when transfer_to_hotel_booking makes the hotel agent, the history
\* that agent sees is the history the flight agent sees at that moment; and
\* from then on the hotel agent's history starts with it: same messages,
\* same order, none removed or altered.
C7_HandoffKeepsHistory ==
    /\ [](\A b \in Instances :
            agents[b].parent # 0 => IsPrefix(agents[b].seen, History(b)))
    /\ [][Len(agents') > Len(agents) =>
            contexts'[agents'[Len(agents')].chat_ctx] = History(session.current)]_vars

\* The hotel agent is active on a history that held a user message when the
\* flight agent handed over, and that has grown since.
C7_Witness ==
    /\ Len(agents) = 2
    /\ agents[2].state = "active"
    /\ agents[2].seen = <<A_Name, U_NycLax>>
    /\ History(2) = <<A_Name, U_NycLax, A_Booked>>

\* C8: book_flight("NYC", "LAX", "2025-12-18") returns route "NYC → LAX" and
\* status "confirmed"; once transfer_to_hotel_booking has made the hotel agent
\* the active agent, the context its on_enter extracted has destination
\* "Lax".
BookedNycLax ==
    /\ lastFlight # NoResult
    /\ lastFlight.args = <<T_NYC, T_LAX, T_Date>>
C8_EndToEnd ==
    /\ BookedNycLax =>
          /\ lastFlight.result.route = T_NYC \o <<" ", "→", " ">> \o T_LAX
          /\ lastFlight.result.status = "confirmed"
    /\ (BookedNycLax /\ Len(agents) = 2 /\ agents[2].state = "active") =>
          /\ agents[2].kind = "hotel"
          /\ entered # EmptyContext
          /\ entered.destination = Title(T_LAX)

---------------------------------------------------------------------------
(* The claim about extract_flight_context.                                 *)

\* What one item alone yields.
AloneOf == [m \in Items |-> ScanItem(m, EmptyDict)]
Alone(i) == AloneOf[hist[i]]
Yields(i, key) == Alone(i) # IndexError /\ key \in DOMAIN Alone(i)
Last(S) == CHOOSE i \in S : \A k \in S : k <= i
WithKey(key) == {i \in 1 .. Len(hist) : Yields(i, key)}
Crashes == \E i \in 1 .. Len(hist) : Alone(i) = IndexError
NoRuleMatches == \A i \in 1 .. Len(hist) : Alone(i) = EmptyDict

\* The last match wins, per field, in what the scan returns.
LastMatchWins ==
    /\ extracted # EmptyContext
    /\ extracted.destination =
          IF WithKey("destination") = {} THEN NotSpecified
          ELSE Alone(Last(WithKey("destination"))).destination
    /\ extracted.date =
          IF WithKey("date") = {} THEN NotSpecified
          ELSE Alone(Last(WithKey("date"))).date

\* C9: for every history the scan returns a context; the history is scanned
\* in its order and the last match wins: the extracted destination (date) is
\* the one of the last message that yields a destination (date); an empty
\* history, or one no rule matches, gives the empty context.
C9_LastMatchWins ==
    extracted # NoResult =>
        /\ extracted # IndexError
        /\ hist = <<>> => extracted = EmptyContext
        /\ NoRuleMatches => extracted = EmptyContext
        /\ ~NoRuleMatches => LastMatchWins

\* What holds instead: the scan raises IndexError exactly on the histories
\* with a user message that line 226 cannot index (only spaces, or nothing,
\* between its first "to " and its next "to " or its end); on every other
\* history the last match wins.
LastMatchWinsUnlessRaised ==
    extracted # NoResult =>
        /\ (extracted = IndexError) <=> Crashes
        /\ hist = <<>> => extracted = EmptyContext
        /\ NoRuleMatches => extracted = EmptyContext
        /\ (~Crashes /\ ~NoRuleMatches) => LastMatchWins

=============================================================================
